---- MODULE Spec2Model ----
(***************************************************************************)
(* Model of examples/vision/image_classification_with_vision_transformer.py *)
(*                                                                         *)
(* Three specifications over one set of variables:                         *)
(*   SpecPatch : hyperparameter configuration, Patches.call and            *)
(*               PatchEncoder.call on a batch of images;                   *)
(*   SpecBuild : create_vit_classifier, one action per layer call, over    *)
(*               the graph of symbolic tensors and their shapes;           *)
(*   SpecRun   : run_experiment (compile, fit with the ModelCheckpoint     *)
(*               callback, load_weights, evaluate).                        *)
(* The hyperparameters are literals of the script; SpecPatch and SpecRun   *)
(* draw them from small sets (the script's own values included) because    *)
(* the properties are stated for every configuration.                      *)
(***************************************************************************)
EXTENDS Integers, Sequences, FiniteSets, TLC

(***************************************************************************)
(* Bounds                                                                  *)
(***************************************************************************)
MaxSize == 4        \* image sizes 1..MaxSize besides the script's 32
MaxPatch == 3       \* patch sizes 1..MaxPatch besides the script's 4
MaxChannels == 2    \* channel counts 1..MaxChannels besides the script's 3
MaxBatch == 2       \* batch sizes 1..MaxBatch
MaxProj == 2        \* projection dimensions 1..MaxProj (SpecPatch)
MaxSeed == 1        \* initialisations of the encoder's weights 0..MaxSeed
MaxEpochs == 3      \* num_epochs in 0..MaxEpochs
MaxWeights == 3     \* parameter values 0..MaxWeights
StepsPerEpoch == 2  \* optimizer steps (batches) of an epoch

(***************************************************************************)
(* Program constants                                                       *)
(***************************************************************************)
num_classes == 100
input_shape == <<32, 32, 3>>
num_heads == 4
transfomer_layers == 8
mlp_head_units == <<2048, 1024>>

VARIABLES
    \* ---- SpecPatch ----
    ppc,                 \* position: "config", "patches", "encode", "encoded", "error"
    image_size,          \* hyperparameter image_size
    patch_size,          \* hyperparameter patch_size
    channels,            \* input_shape[2]
    projection_dims,     \* hyperparameter projection_dims
    num_patches,         \* hyperparameter num_patches (0 before Configure)
    images,              \* the batch given to Patches.call
    patches,             \* result of Patches.call
    kernel,              \* PatchEncoder.projection kernel
    position_embedding,  \* PatchEncoder.position_embedding table (rows 0..num_patches-1 at 1..num_patches)
    positions,           \* the positions tensor of PatchEncoder.call
    encoded,             \* result of PatchEncoder.call
    \* ---- SpecBuild ----
    bpc,                 \* position in create_vit_classifier
    batch,               \* the batch dimension of the symbolic input
    block,               \* number of completed iterations of the transformer loop
    tensors,             \* the symbolic tensors created so far: [op, inputs, shape]
    env,                 \* the local names of create_vit_classifier -> index in tensors (0: unset)
    \* ---- SpecRun ----
    rpc,                 \* position in run_experiment
    num_epochs,          \* hyperparameter num_epochs
    weights,             \* the parameters of the model
    step,                \* optimizer steps taken in the current epoch
    logs,                \* val_accuracy in the logs of the current epoch (-1: not computed)
    best,                \* ModelCheckpoint.best
    checkpoint,          \* the file at checkpoint_filepath
    history,             \* per completed epoch: val_accuracy, and the weights and whether the callback saved
    calls,               \* number of calls of fit, load_weights and evaluate
    accuracy             \* result of model.evaluate (-1: none)

cfgVars == <<image_size, patch_size, channels, projection_dims, num_patches>>

patchVars == <<ppc, images, patches, kernel, position_embedding, positions, encoded>>

buildVars == <<bpc, batch, block, tensors, env>>

runVars == <<rpc, num_epochs, weights, step, logs, best, checkpoint, history, calls, accuracy>>

vars == <<cfgVars, patchVars, buildVars, runVars>>

(***************************************************************************)
(* Helpers                                                                 *)
(***************************************************************************)
RECURSIVE SumSeq(_)
SumSeq(s) == IF s = <<>> THEN 0 ELSE Head(s) + SumSeq(Tail(s))

\* the ** operator on a natural exponent
RECURSIVE Pow(_, _)
Pow(x, n) == IF n = 0 THEN 1 ELSE x * Pow(x, n - 1)

(***************************************************************************)
(* Images: a batch of b images of size s x s x c.  Every pixel of the      *)
(* batch carries a distinct value, so a value identifies where it came     *)
(* from.                                                                   *)
(***************************************************************************)
Pixel(b, r, c, ch, s, nch) == (((b - 1) * s + (r - 1)) * s + (c - 1)) * nch + ch

Batch(n, s, nch) ==
    [b \in 1..n |-> [r \in 1..s |-> [c \in 1..s |-> [ch \in 1..nch |->
        Pixel(b, r, c, ch, s, nch)]]]]

(***************************************************************************)
(* tf.image.extract_patches(sizes=[1,p,p,1], strides=[1,p,p,1],            *)
(* rates=[1,1,1,1], padding="VALID") on one image: a grid of               *)
(* out x out windows, out = (s - p) div p + 1, each window flattened       *)
(* in (row, column, channel) order into the depth dimension.               *)
(***************************************************************************)
ValidOutputSize(s, p, stride) == (s - p) \div stride + 1

\* windows that advance by one pixel instead of by the patch size
extract_patches_stride1(img, p) ==
    LET s == Len(img)
        nch == Len(img[1][1])
        out == ValidOutputSize(s, p, 1)
    IN [i \in 1..out |-> [j \in 1..out |-> [e \in 1..(p * p * nch) |->
           LET dr == (e - 1) \div (p * nch)
               dc == ((e - 1) \div nch) % p
               ch == (e - 1) % nch
           IN img[(i - 1) + dr + 1][(j - 1) + dc + 1][ch + 1]]]]

extract_patches(img, p) ==
    LET s == Len(img)
        nch == Len(img[1][1])
        out == ValidOutputSize(s, p, p)
    IN [i \in 1..out |-> [j \in 1..out |-> [e \in 1..(p * p * nch) |->
           LET dr == (e - 1) \div (p * nch)
               dc == ((e - 1) \div nch) % p
               ch == (e - 1) % nch
           IN img[(i - 1) * p + dr + 1][(j - 1) * p + dc + 1][ch + 1]]]]

\* tf.reshape(patches, [batch_size, -1, patch_dims]) on one image's grid:
\* rows of the grid one after the other.
reshape(grid) ==
    LET rows == Len(grid)
        cols == IF rows = 0 THEN 0 ELSE Len(grid[1])
    IN [k \in 1..(rows * cols) |-> grid[((k - 1) \div cols) + 1][((k - 1) % cols) + 1]]

\* Patches.call
PatchesCallResult(imgs, p) ==
    [b \in 1..Len(imgs) |-> reshape(extract_patches(imgs[b], p))]

(***************************************************************************)
(* PatchEncoder                                                            *)
(***************************************************************************)
\* layers.Dense(units) kernel of shape (in_dim, units), one per seed
DenseKernel(seed, in_dim, units) ==
    [k \in 1..in_dim |-> [j \in 1..units |-> ((seed + k + 2 * j) % 3) - 1]]

\* layers.Dense applied to one vector (no activation; the bias starts at 0)
Dense(w, x) ==
    IF Len(w) = 0 THEN <<>>
    ELSE [j \in 1..Len(w[1]) |-> SumSeq([k \in 1..Len(x) |-> w[k][j] * x[k]])]

\* layers.Embedding(input_dim, output_dim) table, one per seed
EmbeddingTable(seed, input_dim, output_dim) ==
    [i \in 1..input_dim |-> [j \in 1..output_dim |-> ((seed + 1) * (3 * i + j)) % 7]]

\* tf.range(start=0, limit=n, delta=1)
Range(n) == [i \in 1..n |-> i - 1]

\* positions counted from the end of the sequence
RangeReversed(n) == [i \in 1..n |-> n - i]

\* positions = tf.range(start=0, limit=self.num_patches, delta=1)
PatchEncoderPositions(n) == Range(n)

\* Embedding lookup of a tensor of indices
EmbeddingLookup(table, idx) == [i \in 1..Len(idx) |-> table[idx[i] + 1]]

VecAdd(a, b) == [j \in 1..Len(a) |-> a[j] + b[j]]

(***************************************************************************)
(* Variables a specification does not use keep these values.               *)
(***************************************************************************)
NoNames ==
    [inputs |-> 0, augmented |-> 0, patches |-> 0, encoded_patches |-> 0,
     x1 |-> 0, attention_output |-> 0, x2 |-> 0, x3 |-> 0,
     representation |-> 0, features |-> 0, logits |-> 0]

BuildIdle ==
    /\ bpc = "idle"
    /\ batch = 0
    /\ block = 0
    /\ tensors = <<>>
    /\ env = NoNames

NoFile == [written_by |-> "nobody"]

RunIdle ==
    /\ rpc = "idle"
    /\ num_epochs = 0
    /\ weights = 0
    /\ step = 0
    /\ logs = -1
    /\ best = 0
    /\ checkpoint = NoFile
    /\ history = <<>>
    /\ calls = [fit |-> 0, load_weights |-> 0, evaluate |-> 0]
    /\ accuracy = -1

PatchIdle ==
    /\ ppc = "idle"
    /\ images = <<>>
    /\ patches = <<>>
    /\ kernel = <<>>
    /\ position_embedding = <<>>
    /\ positions = <<>>
    /\ encoded = <<>>

(***************************************************************************)
(* SpecPatch                                                               *)
(***************************************************************************)
\* <<image_size, patch_size, channels>>: the script's configuration and the small ones
Configurations ==
    {<<input_shape[1], 4, input_shape[3]>>} \cup
    {c \in (1..MaxSize) \X (1..MaxPatch) \X (1..MaxChannels) : c[2] <= c[1]}

InitPatch ==
    /\ ppc = "config"
    /\ \E c \in Configurations :
          /\ image_size = c[1]
          /\ patch_size = c[2]
          /\ channels = c[3]
    /\ projection_dims \in 1..MaxProj
    /\ num_patches = 0
    /\ \E n \in 1..MaxBatch : images = Batch(n, image_size, channels)
    /\ patches = <<>>
    /\ kernel = <<>>
    /\ position_embedding = <<>>
    /\ positions = <<>>
    /\ encoded = <<>>
    /\ BuildIdle
    /\ RunIdle

\* num_patches = (image_size // patch_size) ** 2
Configure ==
    /\ ppc = "config"
    /\ num_patches' = Pow(image_size \div patch_size, 2)
    /\ ppc' = "patches"
    /\ UNCHANGED <<image_size, patch_size, channels, projection_dims>>
    /\ UNCHANGED <<images, patches, kernel, position_embedding, positions, encoded>>
    /\ UNCHANGED <<buildVars, runVars>>

\* Patches(patch_size)(images)
PatchesCall ==
    /\ ppc = "patches"
    /\ patches' = PatchesCallResult(images, patch_size)
    /\ ppc' = "encode"
    /\ UNCHANGED cfgVars
    /\ UNCHANGED <<images, kernel, position_embedding, positions, encoded>>
    /\ UNCHANGED <<buildVars, runVars>>

\* PatchEncoder(num_patches, projection_dims)(patches): the layer's weights are
\* created with some initial value; the sum broadcasts the (num_patches, dims)
\* embeddings over the batch and fails when the sequence lengths differ.
PatchEncoderCall ==
    /\ ppc = "encode"
    /\ \E ks \in 0..MaxSeed, es \in 0..MaxSeed :
        LET w == DenseKernel(ks, patch_size * patch_size * channels, projection_dims)
            table == EmbeddingTable(es, num_patches, projection_dims)
            pos == PatchEncoderPositions(num_patches)
            emb == EmbeddingLookup(table, pos)
        IN /\ kernel' = w
           /\ position_embedding' = table
           /\ positions' = pos
           /\ IF \A b \in 1..Len(patches) : Len(patches[b]) = Len(emb)
              THEN /\ encoded' = [b \in 1..Len(patches) |->
                                    [i \in 1..Len(patches[b]) |->
                                        VecAdd(Dense(w, patches[b][i]), emb[i])]]
                   /\ ppc' = "encoded"
              ELSE /\ encoded' = <<>>
                   /\ ppc' = "error"
    /\ UNCHANGED cfgVars
    /\ UNCHANGED <<images, patches>>
    /\ UNCHANGED <<buildVars, runVars>>

NextPatch == Configure \/ PatchesCall \/ PatchEncoderCall

SpecPatch == InitPatch /\ [][NextPatch]_vars

(***************************************************************************)
(* SpecBuild: create_vit_classifier.  Every layer call appends a symbolic  *)
(* tensor with the shape the layer computes for it; a layer that rejects   *)
(* its input shapes ends the construction in "error".                      *)
(***************************************************************************)
\* hidden units whose last entry is not the projection dimension
transformer_units_wide == <<projection_dims * 2, projection_dims * 2>>

\* transformer_units = [projection_dims * 2, projection_dims]
transformer_units == <<projection_dims * 2, projection_dims>>

Tensor(op, ins, shape) == [op |-> op, inputs |-> ins, shape |-> shape]

\* shape with its last dimension replaced (Dense)
WithLastDim(shape, units) == [i \in 1..Len(shape) |-> IF i = Len(shape) THEN units ELSE shape[i]]

\* do two shapes of equal rank combine elementwise (equal or 1 in every dimension)
Compatible(s1, s2) ==
    /\ Len(s1) = Len(s2)
    /\ \A i \in 1..Len(s1) : s1[i] = s2[i] \/ s1[i] = 1 \/ s2[i] = 1

BroadcastShape(s1, s2) == [i \in 1..Len(s1) |-> IF s1[i] = 1 THEN s2[i] ELSE s1[i]]

RECURSIVE Product(_)
Product(s) == IF s = <<>> THEN 1 ELSE Head(s) * Product(Tail(s))

\* mlp(x, hidden_units, dropout_rate): a Dense(units, gelu) and a Dropout per
\* entry of hidden_units; the result is the graph extended by these tensors,
\* the last of which is the return value.
RECURSIVE mlp(_, _, _)
mlp(ts, x, hidden_units) ==
    IF hidden_units = <<>> THEN ts
    ELSE LET dense == Tensor("Dense", <<x>>, WithLastDim(ts[x].shape, Head(hidden_units)))
             ts1 == Append(ts, dense)
             drop == Tensor("Dropout", <<Len(ts1)>>, dense.shape)
             ts2 == Append(ts1, drop)
         IN mlp(ts2, Len(ts2), Tail(hidden_units))

InitBuild ==
    /\ image_size = input_shape[1]
    /\ patch_size = 4
    /\ channels = input_shape[3]
    /\ projection_dims = 64
    /\ num_patches = Pow(image_size \div patch_size, 2)
    /\ PatchIdle
    /\ RunIdle
    /\ bpc = "inputs"
    /\ batch \in 1..MaxBatch
    /\ block = 0
    /\ tensors = <<>>
    /\ env = NoNames

\* a layer call creates tensor t, binds it to name and goes on at next
Emit(name, t, next) ==
    /\ tensors' = Append(tensors, t)
    /\ env' = [env EXCEPT ![name] = Len(tensors) + 1]
    /\ bpc' = next
    /\ UNCHANGED <<batch, block, cfgVars, patchVars, runVars>>

\* a layer call raises
Raise ==
    /\ bpc' = "error"
    /\ UNCHANGED <<batch, block, tensors, env, cfgVars, patchVars, runVars>>

\* inputs = layers.Input(shape=input_shape)
Inputs ==
    /\ bpc = "inputs"
    /\ Emit("inputs", Tensor("Input", <<>>, <<batch>> \o input_shape), "augment")

\* augmented = data_augmentation(inputs)
Augment ==
    /\ bpc = "augment"
    /\ Emit("augmented",
            Tensor("data_augmentation", <<env.inputs>>, tensors[env.inputs].shape), "patches")

\* patches = Patches(patch_size)(augmented)
CreatePatches ==
    /\ bpc = "patches"
    /\ LET shape == tensors[env.augmented].shape
           rows == ValidOutputSize(shape[2], patch_size, patch_size)
           cols == ValidOutputSize(shape[3], patch_size, patch_size)
       IN Emit("patches",
               Tensor("Patches", <<env.augmented>>,
                      <<shape[1], rows * cols, patch_size * patch_size * shape[4]>>),
               "encode")

\* encoded_patches = PatchEncoder(num_patches, projection_dims)(patches)
EncodePatches ==
    /\ bpc = "encode"
    /\ LET projected == WithLastDim(tensors[env.patches].shape, projection_dims)
           embedded == <<1, num_patches, projection_dims>>
       IN IF Compatible(projected, embedded)
          THEN Emit("encoded_patches",
                    Tensor("PatchEncoder", <<env.patches>>, BroadcastShape(projected, embedded)),
                    IF transfomer_layers > 0 THEN "ln1" ELSE "head_ln")
          ELSE Raise

\* x1 = layers.LayerNormalization(epsilon=1e-6)(encoded_patches)
LayerNorm1 ==
    /\ bpc = "ln1"
    /\ Emit("x1",
            Tensor("LayerNormalization", <<env.encoded_patches>>,
                   tensors[env.encoded_patches].shape), "mha")

\* attention_output = layers.MultiHeadAttention(...)(x1, x1)
Attention ==
    /\ bpc = "mha"
    /\ Emit("attention_output",
            Tensor("MultiHeadAttention", <<env.x1, env.x1>>, tensors[env.x1].shape), "skip1")

\* x2 = layers.Add()([attention_output, x1]): the residual taken after the norm
Skip1_PostNorm ==
    /\ bpc = "skip1"
    /\ LET s1 == tensors[env.attention_output].shape
           s2 == tensors[env.x1].shape
       IN IF Compatible(s1, s2)
          THEN Emit("x2",
                    Tensor("Add", <<env.attention_output, env.x1>>,
                           BroadcastShape(s1, s2)), "ln2")
          ELSE Raise

\* x2 = layers.Add()([attention_output, encoded_patches])
Skip1 ==
    /\ bpc = "skip1"
    /\ LET s1 == tensors[env.attention_output].shape
           s2 == tensors[env.encoded_patches].shape
       IN IF Compatible(s1, s2)
          THEN Emit("x2",
                    Tensor("Add", <<env.attention_output, env.encoded_patches>>,
                           BroadcastShape(s1, s2)), "ln2")
          ELSE Raise

\* x3 = layers.LayerNormalization(epsilon=1e-6)(x2)
LayerNorm2 ==
    /\ bpc = "ln2"
    /\ Emit("x3",
            Tensor("LayerNormalization", <<env.x2>>, tensors[env.x2].shape), "mlp")

\* x3 = mlp(x3, hidden_units=transformer_units, dropout_rate=0.1)
TransformerMlp ==
    /\ bpc = "mlp"
    /\ tensors' = mlp(tensors, env.x3, transformer_units)
    /\ env' = [env EXCEPT !.x3 = Len(tensors')]
    /\ bpc' = "skip2"
    /\ UNCHANGED <<batch, block, cfgVars, patchVars, runVars>>

\* encoded_patches = layers.Add()([x3, x2]); end of one iteration of the loop
Skip2 ==
    /\ bpc = "skip2"
    /\ LET s1 == tensors[env.x3].shape
           s2 == tensors[env.x2].shape
       IN IF Compatible(s1, s2)
          THEN /\ tensors' = Append(tensors, Tensor("Add", <<env.x3, env.x2>>, BroadcastShape(s1, s2)))
               /\ env' = [env EXCEPT !.encoded_patches = Len(tensors) + 1]
               /\ block' = block + 1
               /\ bpc' = IF block + 1 < transfomer_layers THEN "ln1" ELSE "head_ln"
               /\ UNCHANGED <<batch, cfgVars, patchVars, runVars>>
          ELSE Raise

\* representation = layers.LayerNormalization(epsilon=1e-6)(encoded_patches)
HeadNorm ==
    /\ bpc = "head_ln"
    /\ Emit("representation",
            Tensor("LayerNormalization", <<env.encoded_patches>>,
                   tensors[env.encoded_patches].shape), "flatten")

\* representation = layers.Flatten()(representation)
Flatten ==
    /\ bpc = "flatten"
    /\ LET shape == tensors[env.representation].shape
       IN Emit("representation",
               Tensor("Flatten", <<env.representation>>, <<shape[1], Product(Tail(shape))>>),
               "dropout")

\* representation = layers.Dropout(0.5)(representation)
HeadDropout ==
    /\ bpc = "dropout"
    /\ Emit("representation",
            Tensor("Dropout", <<env.representation>>, tensors[env.representation].shape),
            "head_mlp")

\* features = mlp(representation, hidden_units=mlp_head_units, dropout_rate=0.5)
HeadMlp ==
    /\ bpc = "head_mlp"
    /\ tensors' = mlp(tensors, env.representation, mlp_head_units)
    /\ env' = [env EXCEPT !.features = Len(tensors')]
    /\ bpc' = "logits"
    /\ UNCHANGED <<batch, block, cfgVars, patchVars, runVars>>

\* logits = layers.Dense(num_classes)(features)
Logits ==
    /\ bpc = "logits"
    /\ Emit("logits",
            Tensor("Dense", <<env.features>>,
                   WithLastDim(tensors[env.features].shape, num_classes)), "model")

\* model = keras.Model(inputs=inputs, outputs=logits); return model
CreateModel ==
    /\ bpc = "model"
    /\ bpc' = "built"
    /\ UNCHANGED <<batch, block, tensors, env, cfgVars, patchVars, runVars>>

NextBuild ==
    \/ Inputs \/ Augment \/ CreatePatches \/ EncodePatches
    \/ LayerNorm1 \/ Attention \/ Skip1 \/ LayerNorm2 \/ TransformerMlp \/ Skip2
    \/ HeadNorm \/ Flatten \/ HeadDropout \/ HeadMlp \/ Logits \/ CreateModel

SpecBuild == InitBuild /\ [][NextBuild]_vars

(***************************************************************************)
(* SpecRun: run_experiment(model).  The fit loop is the framework's: per   *)
(* epoch the optimizer steps over the batches, the validation split is     *)
(* evaluated, and the callbacks get on_epoch_end with the epoch's logs.    *)
(* A fault may end fit at any point; nothing catches it.                   *)
(***************************************************************************)
Weights == 0..MaxWeights

NegInf == -1     \* below every accuracy

\* accuracy of the model with weights w on the validation split: the number
\* of correctly classified samples, a function of the weights alone
ValAccuracy(w) == w \div 2

\* accuracy of the model with weights w on the test data
TestAccuracy(w) == (w + 1) \div 2

\* a comparison that also holds on a tie
monitor_op_greater_equal(current, reference) == current >= reference

\* ModelCheckpoint(monitor="val_accuracy"): mode "auto" picks np.greater for
\* a monitor with "acc" in its name
monitor_op(current, reference) == current > reference

\* the file ModelCheckpoint writes for the model at the end of epoch e
SavedModel(w, e) == [written_by |-> "this run", weights |-> w, epoch |-> e]

\* a load that leaves the model as it is
load_weights_noop(w, file) == w

\* model.load_weights(checkpoint_filepath): the weights the model has afterwards
load_weights(w, file) == file.weights

InitRun ==
    /\ image_size = input_shape[1]
    /\ patch_size = 4
    /\ channels = input_shape[3]
    /\ projection_dims = 64
    /\ num_patches = Pow(image_size \div patch_size, 2)
    /\ PatchIdle
    /\ BuildIdle
    /\ rpc = "compile"
    /\ num_epochs \in 0..MaxEpochs
    /\ weights \in Weights
    /\ step = 0
    /\ logs = -1
    /\ best = 0
    /\ checkpoint \in {NoFile} \cup
          {[written_by |-> "earlier run", weights |-> w, epoch |-> 0] : w \in Weights}
    /\ history = <<>>
    /\ calls = [fit |-> 0, load_weights |-> 0, evaluate |-> 0]
    /\ accuracy = -1

\* optimizer = AdamW(...); model.compile(...)
Compile ==
    /\ rpc = "compile"
    /\ rpc' = "callback"
    /\ UNCHANGED <<num_epochs, weights, step, logs, best, checkpoint, history, calls, accuracy>>
    /\ UNCHANGED <<cfgVars, patchVars, buildVars>>

\* a ModelCheckpoint whose best starts at 0
CreateCheckpointCallback_BestZero ==
    /\ rpc = "callback"
    /\ best' = 0
    /\ rpc' = "fit"
    /\ UNCHANGED <<num_epochs, weights, step, logs, checkpoint, history, calls, accuracy>>
    /\ UNCHANGED <<cfgVars, patchVars, buildVars>>

\* checkpoint_callback = keras.callbacks.ModelCheckpoint(checkpoint_filepath,
\*     monitor="val_accuracy", save_best_only=True)
CreateCheckpointCallback ==
    /\ rpc = "callback"
    /\ best' = NegInf
    /\ rpc' = "fit"
    /\ UNCHANGED <<num_epochs, weights, step, logs, checkpoint, history, calls, accuracy>>
    /\ UNCHANGED <<cfgVars, patchVars, buildVars>>

\* history = model.fit(..., epochs=num_epochs, validation_split=0.15, callbacks=[...])
FitBegin ==
    /\ rpc = "fit"
    /\ calls' = [calls EXCEPT !.fit = @ + 1]
    /\ step' = 0
    /\ rpc' = IF num_epochs > 0 THEN "train" ELSE "fitted"
    /\ UNCHANGED <<num_epochs, weights, logs, best, checkpoint, history, accuracy>>
    /\ UNCHANGED <<cfgVars, patchVars, buildVars>>

\* one optimizer step on a batch
TrainStep ==
    /\ rpc = "train"
    /\ step < StepsPerEpoch
    /\ weights' \in Weights
    /\ step' = step + 1
    /\ rpc' = IF step + 1 < StepsPerEpoch THEN "train" ELSE "validate"
    /\ UNCHANGED <<num_epochs, logs, best, checkpoint, history, calls, accuracy>>
    /\ UNCHANGED <<cfgVars, patchVars, buildVars>>

\* the metrics on the validation split at the end of the epoch
Validate ==
    /\ rpc = "validate"
    /\ logs' = ValAccuracy(weights)
    /\ rpc' = "epoch_end"
    /\ UNCHANGED <<num_epochs, weights, step, best, checkpoint, history, calls, accuracy>>
    /\ UNCHANGED <<cfgVars, patchVars, buildVars>>

\* on_epoch_end of the callbacks: ModelCheckpoint with save_best_only saves
\* the model when monitor_op(current, best); History records the logs
OnEpochEnd ==
    /\ rpc = "epoch_end"
    /\ LET e == Len(history) + 1
           save == monitor_op(logs, best)
       IN /\ IF save
             THEN /\ best' = logs
                  /\ checkpoint' = SavedModel(weights, e)
             ELSE UNCHANGED <<best, checkpoint>>
          /\ history' = Append(history, [val_accuracy |-> logs, weights |-> weights, saved |-> save])
          /\ rpc' = IF e < num_epochs THEN "train" ELSE "fitted"
    /\ step' = 0
    /\ logs' = -1
    /\ UNCHANGED <<num_epochs, weights, calls, accuracy>>
    /\ UNCHANGED <<cfgVars, patchVars, buildVars>>

\* a fault inside fit that is swallowed: the script goes on after fit
FitFails_Swallowed ==
    /\ rpc \in {"train", "validate", "epoch_end"}
    /\ rpc' = "fitted"
    /\ UNCHANGED <<num_epochs, weights, step, logs, best, checkpoint, history, calls, accuracy>>
    /\ UNCHANGED <<cfgVars, patchVars, buildVars>>

\* a fault inside fit: it propagates out of run_experiment and ends the script
FitFails ==
    /\ rpc \in {"train", "validate", "epoch_end"}
    /\ rpc' = "fit_failed"
    /\ UNCHANGED <<num_epochs, weights, step, logs, best, checkpoint, history, calls, accuracy>>
    /\ UNCHANGED <<cfgVars, patchVars, buildVars>>

\* model.load_weights(checkpoint_filepath); raises when there is no file
LoadWeights ==
    /\ rpc = "fitted"
    /\ calls' = [calls EXCEPT !.load_weights = @ + 1]
    /\ IF checkpoint = NoFile
       THEN /\ rpc' = "load_failed"
            /\ UNCHANGED weights
       ELSE /\ weights' = load_weights(weights, checkpoint)
            /\ rpc' = "loaded"
    /\ UNCHANGED <<num_epochs, step, logs, best, checkpoint, history, accuracy>>
    /\ UNCHANGED <<cfgVars, patchVars, buildVars>>

\* an evaluate that runs the model in training mode and updates it
Evaluate_Training ==
    /\ rpc = "loaded"
    /\ calls' = [calls EXCEPT !.evaluate = @ + 1]
    /\ accuracy' = TestAccuracy(weights)
    /\ weights' = (weights + 1) % (MaxWeights + 1)
    /\ rpc' = "evaluated"
    /\ UNCHANGED <<num_epochs, step, logs, best, checkpoint, history>>
    /\ UNCHANGED <<cfgVars, patchVars, buildVars>>

\* _, accuracy, top_5_accuracy = model.evaluate(x_test, y_test)
Evaluate ==
    /\ rpc = "loaded"
    /\ calls' = [calls EXCEPT !.evaluate = @ + 1]
    /\ accuracy' = TestAccuracy(weights)
    /\ rpc' = "evaluated"
    /\ UNCHANGED <<num_epochs, weights, step, logs, best, checkpoint, history>>
    /\ UNCHANGED <<cfgVars, patchVars, buildVars>>

\* the two prints; return history
Return ==
    /\ rpc = "evaluated"
    /\ rpc' = "done"
    /\ UNCHANGED <<num_epochs, weights, step, logs, best, checkpoint, history, calls, accuracy>>
    /\ UNCHANGED <<cfgVars, patchVars, buildVars>>

NextRun ==
    \/ Compile \/ CreateCheckpointCallback \/ FitBegin \/ TrainStep \/ Validate
    \/ OnEpochEnd \/ FitFails \/ LoadWeights \/ Evaluate \/ Return

SpecRun == InitRun /\ [][NextRun]_vars

(***************************************************************************)
(* Properties of SpecPatch                                                 *)
(***************************************************************************)
PatchesDone == ppc \in {"encode", "encoded", "error"}

\* C1: for a square image of size S with C channels and a patch size P that
\* divides S, Patches.call yields (S/P)^2 patches per image, each of length
\* P*P*C; the pixel at (r, c, ch) is found in the patch of grid cell
\* (r div P, c div P), counted row by row, at offset (r mod P, c mod P, ch),
\* and no pixel occurs twice; 32/4/3 gives 64 patches of 48 elements, the
\* configured num_patches.
C1_PatchGrid ==
    (PatchesDone /\ image_size % patch_size = 0) =>
        LET n == image_size \div patch_size
            len == patch_size * patch_size * channels
        IN /\ Len(patches) = Len(images)
           /\ \A b \in 1..Len(images) :
                /\ Len(patches[b]) = n * n
                /\ \A k \in 1..Len(patches[b]) : Len(patches[b][k]) = len
                /\ \A r \in 1..image_size, c \in 1..image_size, ch \in 1..channels :
                     patches[b][((r - 1) \div patch_size) * n + ((c - 1) \div patch_size) + 1]
                            [(((r - 1) % patch_size) * patch_size + ((c - 1) % patch_size)) * channels + ch]
                       = images[b][r][c][ch]
                /\ Cardinality({patches[b][k][e] : k \in 1..(n * n), e \in 1..len}) = n * n * len
           /\ (image_size = 32 /\ patch_size = 4 /\ channels = 3) =>
                /\ num_patches = 64
                /\ \A b \in 1..Len(images) :
                     /\ Len(patches[b]) = num_patches
                     /\ \A k \in 1..64 : Len(patches[b][k]) = 48

C1_Witness ==
    /\ PatchesDone
    /\ image_size = 32 /\ patch_size = 4 /\ channels = 3
    /\ Len(patches) >= 2
    /\ Len(patches[2]) = 64

\* C2: when patch_size does not divide image_size the configuration is
\* rejected; the pipeline never goes on with floor(image_size/patch_size)^2
\* patches cut from a truncated image.
C2_NonDivisibleRejected ==
    (image_size % patch_size # 0) =>
        ~ /\ PatchesDone
          /\ \A b \in 1..Len(patches) :
                Len(patches[b]) = Pow(image_size \div patch_size, 2)

\* C7: the offset PatchEncoder.call adds at sequence index i is row i of the
\* embedding table (i in 0..num_patches-1), the same for every entry of the
\* batch whatever its content, and output i is computed from input patch i.
C7_PositionOffsets ==
    (ppc = "encoded") =>
        /\ Len(positions) = num_patches
        /\ Len(position_embedding) = num_patches
        /\ \A i \in 0..(num_patches - 1) : positions[i + 1] = i
        /\ Len(encoded) = Len(patches)
        /\ \A b \in 1..Len(patches) :
             /\ Len(encoded[b]) = Len(patches[b])
             /\ \A i \in 0..(num_patches - 1), j \in 1..projection_dims :
                  encoded[b][i + 1][j] - Dense(kernel, patches[b][i + 1])[j]
                    = position_embedding[i + 1][j]
        /\ \A b1 \in 1..Len(patches), b2 \in 1..Len(patches) :
             \A i \in 1..num_patches, j \in 1..projection_dims :
                  encoded[b1][i][j] - Dense(kernel, patches[b1][i])[j]
                    = encoded[b2][i][j] - Dense(kernel, patches[b2][i])[j]

C7_Witness ==
    /\ ppc = "encoded"
    /\ Len(patches) >= 2
    /\ num_patches >= 2
    /\ patches[1] # patches[2]
    /\ position_embedding[1] # position_embedding[2]
    /\ encoded[1] # encoded[2]

(***************************************************************************)
(* Properties of SpecBuild                                                 *)
(***************************************************************************)
HeadPositions == {"head_ln", "flatten", "dropout", "head_mlp", "logits", "model", "built"}

OpsOf(ns) == [i \in 1..Len(ns) |-> tensors[ns[i]].op]

\* C8: the sequence has shape (batch, num_patches, projection_dims) at the
\* output of the patch encoder and of every transformer block, for every
\* batch size; both residual additions of a block add tensors of equal
\* shape (the mlp of the block ends in transformer_units' last entry, which
\* is projection_dims); no layer call of the construction raises.
C8_SequenceShape ==
    /\ bpc # "error"
    /\ env.encoded_patches # 0 =>
          tensors[env.encoded_patches].shape = <<batch, num_patches, projection_dims>>
    /\ \A n \in 1..Len(tensors) :
          tensors[n].op = "Add" =>
             /\ tensors[tensors[n].inputs[1]].shape = tensors[tensors[n].inputs[2]].shape
             /\ tensors[n].shape = <<batch, num_patches, projection_dims>>

C8_Witness ==
    /\ bpc = "built"
    /\ batch >= 2
    /\ block = transfomer_layers
    /\ Cardinality({n \in 1..Len(tensors) : tensors[n].op = "Add"}) = 2 * transfomer_layers
    /\ tensors[env.encoded_patches].shape = <<batch, 64, 64>>

\* C9: the construction makes transfomer_layers = 8 blocks one after the
\* other; block k is, in this order, LayerNormalization of the block input,
\* MultiHeadAttention of that value with itself, Add of the attention output
\* and the block input, LayerNormalization of that sum, the mlp (Dense,
\* Dropout, Dense, Dropout) of the normalized sum, Add of the mlp output and
\* the first sum; the input of block k+1 is the second sum of block k, and a
\* LayerNormalization never takes the output of an attention or mlp layer.
C9_PreNormBlocks ==
    /\ block <= transfomer_layers
    /\ bpc \in HeadPositions =>
          /\ block = 8
          /\ Cardinality({n \in 1..Len(tensors) : tensors[n].op = "MultiHeadAttention"}) = 8
    /\ block >= 1 =>
          LET enc == CHOOSE n \in 1..Len(tensors) : tensors[n].op = "PatchEncoder"
          IN \A k \in 1..block :
                LET in == enc + 9 * (k - 1)
                IN /\ Len(tensors) >= in + 9
                   /\ OpsOf([i \in 1..9 |-> in + i]) =
                         <<"LayerNormalization", "MultiHeadAttention", "Add",
                           "LayerNormalization", "Dense", "Dropout", "Dense", "Dropout", "Add">>
                   /\ tensors[in].op = IF k = 1 THEN "PatchEncoder" ELSE "Add"
                   /\ tensors[in + 1].inputs = <<in>>
                   /\ tensors[in + 2].inputs = <<in + 1, in + 1>>
                   /\ tensors[in + 3].inputs = <<in + 2, in>>
                   /\ tensors[in + 4].inputs = <<in + 3>>
                   /\ tensors[in + 5].inputs = <<in + 4>>
                   /\ tensors[in + 6].inputs = <<in + 5>>
                   /\ tensors[in + 7].inputs = <<in + 6>>
                   /\ tensors[in + 8].inputs = <<in + 7>>
                   /\ tensors[in + 9].inputs = <<in + 8, in + 3>>
                   /\ k = block /\ bpc \in {"ln1", "head_ln"} => env.encoded_patches = in + 9
    /\ \A n \in 1..Len(tensors) :
          tensors[n].op = "LayerNormalization" =>
             tensors[tensors[n].inputs[1]].op \in {"PatchEncoder", "Add"}

C9_Witness ==
    /\ bpc = "built"
    /\ block = 8
    /\ Cardinality({n \in 1..Len(tensors) : tensors[n].op = "LayerNormalization"}) = 17

(***************************************************************************)
(* Properties of SpecRun                                                   *)
(***************************************************************************)
\* the first epoch whose val_accuracy is the highest of the epochs completed
BestEpoch ==
    CHOOSE e \in 1..Len(history) :
        /\ \A m \in 1..Len(history) : history[m].val_accuracy <= history[e].val_accuracy
        /\ \A m \in 1..(e - 1) : history[m].val_accuracy < history[e].val_accuracy

AfterLoad == rpc \in {"loaded", "evaluated", "done"}

\* C3: after every completed epoch the checkpoint file holds the weights of
\* the epoch with the highest val_accuracy so far (the earliest one on a
\* tie); the callback wrote the file at the end of epoch n if and only if
\* val_accuracy of epoch n was strictly greater than that of every earlier
\* epoch of the run.
C3_BestCheckpoint ==
    /\ \A n \in 1..Len(history) :
          history[n].saved <=>
             \A m \in 1..(n - 1) : history[m].val_accuracy < history[n].val_accuracy
    /\ Len(history) >= 1 =>
          /\ checkpoint = SavedModel(history[BestEpoch].weights, BestEpoch)
          /\ history[BestEpoch].saved
          /\ \A n \in (BestEpoch + 1)..Len(history) : ~ history[n].saved
          /\ best = history[BestEpoch].val_accuracy

C3_Witness ==
    /\ Len(history) = 3
    /\ history[1].val_accuracy < history[2].val_accuracy
    /\ history[3].val_accuracy = history[2].val_accuracy
    /\ history[3].weights # history[2].weights
    /\ checkpoint.epoch = 2

RunInv ==
    /\ calls.fit <= 1 /\ calls.load_weights <= 1 /\ calls.evaluate <= 1
    /\ calls.evaluate = 1 =>
          /\ calls.load_weights = 1
          /\ rpc \in {"evaluated", "done"}
    /\ calls.load_weights = 1 =>
          /\ calls.fit = 1
          /\ Len(history) = num_epochs
          /\ rpc \in {"loaded", "evaluated", "done", "load_failed"}
    /\ rpc \in {"loaded", "evaluated", "done"} => calls.load_weights = 1
    /\ rpc = "fit_failed" =>
          /\ calls = [fit |-> 1, load_weights |-> 0, evaluate |-> 0]
          /\ accuracy = -1

\* C4: the test data is evaluated at most once, after exactly one
\* load_weights, which comes after the one fit call has run all its epochs;
\* when fit fails there is one fit call, no load_weights, no evaluate, and
\* no further step of the run.
C4_FitLoadEvaluate == [](RunInv) /\ [][rpc # "fit_failed"]_vars

C4_Witness ==
    /\ rpc = "done"
    /\ calls = [fit |-> 1, load_weights |-> 1, evaluate |-> 1]
    /\ Len(history) >= 2

C6_WeightsFrame ==
    [][ /\ weights' # weights =>
              \/ rpc = "train" /\ rpc' \in {"train", "validate"} /\ calls.fit = 1
              \/ rpc = "fitted" /\ rpc' = "loaded" /\ calls.load_weights = 0
        /\ calls'.load_weights <= 1
        /\ checkpoint' # checkpoint => weights' = weights
        /\ logs' # logs => weights' = weights
        /\ accuracy' # accuracy => weights' = weights
      ]_vars

C6_Witness ==
    /\ rpc = "done"
    /\ checkpoint.written_by = "this run"
    /\ Len(history) >= 2
    /\ history[Len(history)].weights # weights
    /\ accuracy >= 0

\* C10: when fit has completed at least one epoch, the file load_weights
\* reads was written by this run (the first epoch always saves), so neither
\* a file of an earlier run nor a missing file is what evaluate works on.
C10_CheckpointOfThisRun ==
    /\ Len(history) >= 1 =>
          /\ history[1].saved
          /\ checkpoint.written_by = "this run"
          /\ rpc # "load_failed"
    /\ (AfterLoad /\ num_epochs >= 1) =>
          /\ checkpoint.written_by = "this run"
          /\ weights = history[checkpoint.epoch].weights

C10_Witness ==
    /\ rpc = "done"
    /\ Len(history) >= 1
    /\ history[1].val_accuracy = 0
    /\ checkpoint.written_by = "this run"

====
